---- MODULE Spec2Model ----
(***************************************************************************)
(* Weather API: the cache-aside lookup pipeline (services/weatherService)  *)
(* over the in-memory cache client (config/cache, a node-cache instance    *)
(* created with useClones: false).                                         *)
(*                                                                         *)
(* Strings are sequences of characters.  JavaScript's undefined and null   *)
(* are the one-token sequences Undefined and JSNull, which no string of    *)
(* characters equals.  Time is Date.now() in abstract ticks; a TTL is a    *)
(* number of ticks.                                                        *)
(***************************************************************************)
EXTENDS Integers, Sequences, FiniteSets, TLC

\* ---------------------------------------------------------------- bounds
MaxFetches == 3
MaxTime == 2

\* two request handlers run concurrently
Procs == {1, 2}

\* const cacheExpiration = parseInt(process.env.CACHE_EXPIRATION) || 43200
\* (any positive number of seconds; here a number of ticks)
cacheExpiration == 1

\* ------------------------------------------------------- JavaScript values
Undefined == <<"<undefined>">>
JSNull == <<"<null>">>

\* (variant: the empty string counted as truthy)
TruthyOrEmpty(v) == v /= Undefined /\ v /= JSNull

\* Boolean(v) for the values that occur: undefined, null and '' are falsy
Truthy(v) == v /= Undefined /\ v /= JSNull /\ v /= <<>>

\* ------------------------------------------------------------ key derivation
WeatherPrefix == <<"w", "e", "a", "t", "h", "e", "r", ":">>

RECURSIVE Join(_, _)
\* Array.prototype.join
Join(strs, sep) ==
  IF strs = <<>> THEN <<>>
  ELSE IF Len(strs) = 1 THEN strs[1]
  ELSE strs[1] \o sep \o Join(Tail(strs), sep)

\* .filter(([_, value]) => value !== undefined && value !== null)
FilterDefined(entries) ==
  SelectSeq(entries, LAMBDA e : e[2] /= Undefined /\ e[2] /= JSNull)

\* .map(([key, value]) => `${key}=${value}`)
MapKeyValue(entries) ==
  [i \in 1..Len(entries) |-> entries[i][1] \o <<"=">> \o entries[i][2]]

\* params is Object.entries(params): the <<name, value>> pairs in insertion order
generateCacheKey(location, params) ==
  LET queryString == Join(MapKeyValue(FilterDefined(params)), <<"&">>)
  IN  WeatherPrefix \o location \o
        (IF queryString /= <<>> THEN <<":">> \o queryString ELSE <<>>)

\* ---------------------------------------------------------------- requests
\* the (location, params) pairs the callers issue
Requests ==
  { [location |-> <<"a">>, params |-> <<>>],
    [location |-> <<"b">>, params |-> <<>>],
    [location |-> <<>>, params |-> <<>>] }

NoReq == [location |-> Undefined, params |-> <<>>]

\* ---------------------------------------------------------------- upstream
\* response.data of a 200 response: two JSON documents and the empty body
Bodies == {<<"A">>, <<"B">>, <<>>}
IsObject(c) == c \in {<<"A">>, <<"B">>}

ErrorStatuses == {400, 401, 403, 404, 429, 500}
UpstreamMessages == {Undefined, <<"M">>}
StatusText == <<"S">>

\* what axios.get settles with:
\*   resolve  - a response with a 2xx status (validateStatus), data = body
\*   reject   - error.response set (status outside 2xx), or only error.request
\*              set (no response was received)
Responses ==
  [type : {"resolve"}, status : {200}, body : Bodies, message : {Undefined}]
    \cup [type : {"resolve"}, status : {201, 204}, body : {<<>>},
          message : {Undefined}]
    \cup [type : {"reject"}, status : ErrorStatuses, body : {<<>>},
          message : UpstreamMessages]
    \cup [type : {"noresponse"}, status : {0}, body : {<<>>}, message : {Undefined}]

\* the responses of the concurrent runs: every success, one rejected status and
\* the transport failure
CoreResponses ==
  {r \in Responses : r.type = "reject" => r.status = 404 /\ r.message = Undefined}
    \ {r \in Responses : r.status \in {201, 204}}

NoResp == [type |-> "none", status |-> 0, body |-> <<>>, message |-> Undefined]

\* A reference to a response object is the object itself with its identity: two
\* references are the same object if and only if their ids are equal, and a
\* mutation of an object changes every reference to it.  orig is the body the
\* upstream sent, key the cache key of the fetch that received it.
Object(id, key, body) == [id |-> id, key |-> key, content |-> body, orig |-> body]

\* JavaScript's null
Null == [id |-> 0, key |-> <<>>, content |-> JSNull, orig |-> JSNull]

\* --------------------------------------------------------------------- state
VARIABLES
  apiKey,      \* process.env.WEATHER_API_KEY is set (read once at module load)
  now,         \* Date.now()
  data,        \* node-cache's table: key -> [v: reference, t: expiry]
  stats,       \* node-cache's stats: [hits, misses]
  objects,     \* number of response objects created
  pc,          \* per request handler: "idle", "waiting", "responded", "done"
  req,         \* the request it serves
  resp,        \* what axios settled with for the current fetch
  result,      \* what getWeatherData returned or threw
  startView,   \* history: the key's entry as the current fetch found it
  calls,       \* history: upstream calls made by the current fetch
  sets,        \* history: cache sets made by the current fetch
  touched,     \* history: the current fetch changed the live entries
  fetches,     \* number of fetches begun
  seenHits,    \* history: lookups that returned a value
  seenMisses,  \* history: lookups that returned null
  keyIn,       \* two (location, params) inputs of generateCacheKey
  keyOut,      \* the keys derived from them, once derived
  lastSet,     \* the last direct cacheClient.set call and what it returned
  http,        \* per request handler: the status of the response its route
               \* sent last (0: none yet)
  forecast,    \* the forecast projection: the days query parameter, the
               \* number of days of the record, and the days returned
  server,      \* index.js: process.env.WEATHER_API_KEY, the phase of the
               \* startup, the port tried, the listen calls made, the servers
               \* that listen, the exit code
  limiter      \* the rate limiter's store: per client the requests counted in
               \* the current window; history: those that went on to a route

\* the state outside the lookup pipeline and the cache
adapterVars == <<lastSet, http, forecast, server, limiter>>

vars == <<adapterVars, keyIn, keyOut, apiKey, now, data, stats, objects, pc, req, resp, result,
          startView, calls, sets, touched, fetches, seenHits, seenMisses>>

NoResult == [ok |-> FALSE, v |-> Null, message |-> <<>>]
Ok(value) == [ok |-> TRUE, v |-> value, message |-> <<>>]
\* new Error(message): message is a template followed by its interpolated text
Err(template, text) == [ok |-> FALSE, v |-> Null, message |-> <<template, text>>]

\* ------------------------------------------------------------- node-cache
EmptyData == [k \in {} |-> [v |-> Null, t |-> 0]]
ZeroStats == [hits |-> 0, misses |-> 0]

\* (variant: an entry counts as expired at its expiry time already)
ExpiredAtExpiry(e) == e.t /= 0 /\ e.t <= now

\* _check: data.t isnt 0 and data.t < Date.now()
Expired(e) == e.t /= 0 /\ e.t < now

\* the entries of d other than key
Without(d, keys) == [k \in DOMAIN d \ keys |-> d[k]]

\* the key has an entry and _check accepts it
cacheHas(key) == key \in DOMAIN data /\ ~Expired(data[key])

\* cache.get(key) as cacheClient.get returns it: the stored reference, or null
cacheClientGet(key) == IF cacheHas(key) THEN data[key].v ELSE Null

\* cache.get deletes the entry it finds expired (deleteOnExpire)
dataAfterGet(key) ==
  IF key \in DOMAIN data /\ Expired(data[key]) THEN Without(data, {key}) ELSE data

\* cache.get counts a hit or a miss
statsAfterGet(key) ==
  IF cacheHas(key) THEN [stats EXCEPT !.hits = @ + 1]
  ELSE [stats EXCEPT !.misses = @ + 1]

\* _wrap: the expiry of an entry set now with this ttl
Livetime(ttl) == IF ttl = 0 THEN 0 ELSE now + ttl

\* (variant: a set that keeps the entry the key already has)
cacheClientSetIfAbsent(d, key, value, EX) ==
  IF key \in DOMAIN d THEN d
  ELSE [k \in DOMAIN d \cup {key} |->
          IF k = key THEN [v |-> value, t |-> now + cacheExpiration] ELSE d[k]]

\* cacheClient.set(key, value, options): ttl = options.EX || cacheExpiration
cacheClientSet(d, key, value, EX) ==
  LET ttl == IF EX /= 0 THEN EX ELSE cacheExpiration
  IN  [k \in DOMAIN d \cup {key} |->
         IF k = key THEN [v |-> value, t |-> Livetime(ttl)] ELSE d[k]]

\* the entries a get would return now
LiveOf(d) == Without(d, {k \in DOMAIN d : Expired(d[k])})

\* ------------------------------------------------------------ the pipeline
\* what the try block throws: an Error, or the rejection of axios.get
Thrown(message) ==
  [response |-> FALSE, request |-> FALSE, status |-> 0,
   dataMessage |-> Undefined, message |-> message]
Rejection(r) ==
  [response |-> r.type = "reject", request |-> TRUE, status |-> r.status,
   dataMessage |-> r.message, message |-> <<"axios", <<>>>>]

\* (variant: the catch block without the 403 case)
catchBlockWithout403(error, location) ==
  IF error.response THEN
    LET statusCode == error.status
        errorMessage ==
          IF Truthy(error.dataMessage) THEN error.dataMessage ELSE StatusText
    IN  IF statusCode = 400 THEN Err("Invalid request: ", errorMessage)
        ELSE IF statusCode = 401
          THEN Err("Invalid API key or authentication error", <<>>)
        ELSE IF statusCode = 404 THEN Err("Location not found: ", location)
        ELSE IF statusCode = 429 THEN Err("API rate limit exceeded", <<>>)
        ELSE Err("Weather API error: ", errorMessage)
  ELSE IF error.request THEN
    Err("No response from weather service. Please try again later.", <<>>)
  ELSE [ok |-> FALSE, v |-> Null, message |-> error.message]

\* the catch block of getWeatherData: the Error it throws
catchBlock(error, location) ==
  IF error.response THEN
    LET statusCode == error.status
        errorMessage ==
          IF Truthy(error.dataMessage) THEN error.dataMessage ELSE StatusText
    IN  IF statusCode = 400 THEN Err("Invalid request: ", errorMessage)
        ELSE IF statusCode = 401 \/ statusCode = 403
          THEN Err("Invalid API key or authentication error", <<>>)
        ELSE IF statusCode = 404 THEN Err("Location not found: ", location)
        ELSE IF statusCode = 429 THEN Err("API rate limit exceeded", <<>>)
        ELSE Err("Weather API error: ", errorMessage)
  ELSE IF error.request THEN
    Err("No response from weather service. Please try again later.", <<>>)
  ELSE [ok |-> FALSE, v |-> Null, message |-> error.message]

\* no cacheClient.set call was made by a caller outside the pipeline
NoSet == [key |-> <<>>, options |-> [given |-> FALSE, EX |-> 0], ret |-> "none"]

\* a response that resolved with a status other than 200:
\* throw new Error(`API error: ${response.statusText}`), which the catch block
\* rethrows; response.status is not read again
nonSuccess(response, location) ==
  catchBlock(Thrown(<<"API error: ", StatusText>>), location)

\* history: the entry of the key as a fetch finds it, by the clock alone:
\* "live" before its expiry time, "boundary" at it, "expired" after it
NoView == [view |-> "none", v |-> Null]
ViewOf(key) ==
  IF key \notin DOMAIN data THEN NoView
  ELSE [view |-> IF now < data[key].t THEN "live"
                 ELSE IF now = data[key].t THEN "boundary" ELSE "expired",
        v |-> data[key].v]

\* the upstream call succeeded: axios resolved, and response.status is 200
succeeded(response) == response.type = "resolve" /\ response.status = 200

\* (variant: the set placed before the status check)
cachedBeforeStatusCheck(response) == response.type = "resolve"

\* the set of line 72 is reached: only after the status check passed
cached(response) == succeeded(response)

KeyOf(r) == generateCacheKey(r.location, r.params)

\* the clients of the server (the rate limiter keys its counts by req.ip)
Clients == {"c1", "c2"}

\* the state of the process after the modules are loaded
CoreInit ==
  /\ apiKey \in BOOLEAN
  /\ now = 0
  /\ data = EmptyData
  /\ stats = ZeroStats
  /\ objects = 0
  /\ pc = [p \in Procs |-> "idle"]
  /\ req = [p \in Procs |-> NoReq]
  /\ resp = [p \in Procs |-> NoResp]
  /\ result = [p \in Procs |-> NoResult]
  /\ startView = [p \in Procs |-> NoView]
  /\ calls = [p \in Procs |-> 0]
  /\ sets = [p \in Procs |-> 0]
  /\ touched = [p \in Procs |-> FALSE]
  /\ fetches = 0
  /\ seenHits = 0
  /\ seenMisses = 0
  /\ lastSet = NoSet
  /\ http = [p \in Procs |-> 0]
  /\ limiter = [hits |-> [c \in Clients |-> 0], reached |-> [c \in Clients |-> 0]]

NoKeyIn == [location1 |-> <<>>, params1 |-> <<>>, location2 |-> <<>>, params2 |-> <<>>]

\* no forecast request was made
NoForecast == [days |-> Undefined, n |-> 0, sent |-> FALSE, out |-> <<>>]

\* index.js before its startup code ran, with this WEATHER_API_KEY
Loaded(key) ==
  [key |-> key, phase |-> "loaded", index |-> 0, listens |-> 0, up |-> 0,
   exitCode |-> 0]

\* an API key of the provider
RealKey == <<"K">>

Init ==
  /\ CoreInit
  /\ keyIn = NoKeyIn
  /\ keyOut = <<>>
  /\ forecast = NoForecast
  /\ server = Loaded(IF apiKey THEN RealKey ELSE Undefined)

\* getWeatherData(location, params) up to the upstream call: validation, key
\* derivation, the cache lookup, and on a hit the return
getWeatherData(p, r) ==
  /\ pc[p] \in {"idle", "done"}
  /\ fetches < MaxFetches
  /\ fetches' = fetches + 1
  /\ req' = [req EXCEPT ![p] = r]
  /\ resp' = [resp EXCEPT ![p] = NoResp]
  /\ sets' = [sets EXCEPT ![p] = 0]
  /\ UNCHANGED <<keyIn, keyOut, apiKey, now, objects>>
  /\ IF ~Truthy(r.location) THEN
       /\ result' = [result EXCEPT ![p] =
                       catchBlock(Thrown(<<"Location is required", <<>>>>), r.location)]
       /\ pc' = [pc EXCEPT ![p] = "done"]
       /\ startView' = [startView EXCEPT ![p] = NoView]
       /\ calls' = [calls EXCEPT ![p] = 0]
       /\ touched' = [touched EXCEPT ![p] = FALSE]
       /\ UNCHANGED <<data, stats, seenHits, seenMisses>>
     ELSE IF ~apiKey THEN
       /\ result' = [result EXCEPT ![p] =
                       catchBlock(Thrown(<<"Weather API key is not configured", <<>>>>),
                                  r.location)]
       /\ pc' = [pc EXCEPT ![p] = "done"]
       /\ startView' = [startView EXCEPT ![p] = NoView]
       /\ calls' = [calls EXCEPT ![p] = 0]
       /\ touched' = [touched EXCEPT ![p] = FALSE]
       /\ UNCHANGED <<data, stats, seenHits, seenMisses>>
     ELSE
       LET cacheKey == KeyOf(r)
           cachedData == cacheClientGet(cacheKey)
       IN  /\ data' = dataAfterGet(cacheKey)
           /\ stats' = statsAfterGet(cacheKey)
           /\ startView' = [startView EXCEPT ![p] = ViewOf(cacheKey)]
           /\ touched' = [touched EXCEPT ![p] = LiveOf(data') /= LiveOf(data)]
           /\ seenHits' = IF cachedData /= Null THEN seenHits + 1 ELSE seenHits
           /\ seenMisses' = IF cachedData = Null THEN seenMisses + 1 ELSE seenMisses
           /\ IF cachedData /= Null /\ Truthy(cachedData.content) THEN
                /\ result' = [result EXCEPT ![p] = Ok(cachedData)]
                /\ pc' = [pc EXCEPT ![p] = "done"]
                /\ calls' = [calls EXCEPT ![p] = 0]
              ELSE
                \* axios.get(url, { params: requestParams }) is issued
                /\ result' = [result EXCEPT ![p] = NoResult]
                /\ pc' = [pc EXCEPT ![p] = "waiting"]
                /\ calls' = [calls EXCEPT ![p] = 1]

\* a caller begins a fetch
FetchStart(p, r) ==
  /\ getWeatherData(p, r)
  /\ UNCHANGED adapterVars

\* the upstream provider answers, or the transport gives up
UpstreamRespond(p, r) ==
  /\ pc[p] = "waiting"
  /\ pc' = [pc EXCEPT ![p] = "responded"]
  /\ resp' = [resp EXCEPT ![p] = r]
  /\ UNCHANGED <<adapterVars, keyIn, keyOut, apiKey, now, data, stats, objects, req, result, startView, calls,
                 sets, touched, fetches, seenHits, seenMisses>>

\* getWeatherData resumes after `await axios.get`
Resume(p) ==
  /\ pc[p] = "responded"
  /\ pc' = [pc EXCEPT ![p] = "done"]
  /\ UNCHANGED <<adapterVars, keyIn, keyOut, apiKey, now, stats, req, resp, startView, calls, fetches,
                 seenHits, seenMisses>>
  /\ LET response == resp[p]
         location == req[p].location
         cacheKey == KeyOf(req[p])
         \* weatherData = response.data is the object axios built
         weatherData == Object(objects + 1, cacheKey, response.body)
     IN  /\ objects' = IF succeeded(response) THEN objects + 1 ELSE objects
         /\ data' = IF cached(response)
                      THEN cacheClientSet(data, cacheKey, weatherData, cacheExpiration)
                      ELSE data
         /\ sets' = [sets EXCEPT ![p] = IF cached(response) THEN @ + 1 ELSE @]
         /\ touched' = [touched EXCEPT ![p] = @ \/ LiveOf(data') /= LiveOf(data)]
         /\ result' = [result EXCEPT ![p] =
              IF succeeded(response) THEN Ok(weatherData)
              ELSE IF response.type = "resolve"
                THEN nonSuccess(response, location)
                ELSE catchBlock(Rejection(response), location)]

\* time passes
Tick ==
  /\ now < MaxTime
  /\ now' = now + 1
  /\ UNCHANGED <<adapterVars, keyIn, keyOut, apiKey, data, stats, objects, pc, req, resp, result, startView,
                 calls, sets, touched, fetches, seenHits, seenMisses>>

\* (variant: a sweep that also removes the entries at their expiry time)
checkDataAtExpiry ==
  /\ data' = Without(data, {k \in DOMAIN data : ExpiredAtExpiry(data[k])})
  /\ UNCHANGED <<adapterVars, keyIn, keyOut, apiKey, now, stats, objects, pc, req, resp, result, startView,
                 calls, sets, touched, fetches, seenHits, seenMisses>>

\* node-cache's periodic _checkData (every checkperiod): expired entries go
checkData ==
  /\ data' = LiveOf(data)
  /\ UNCHANGED <<adapterVars, keyIn, keyOut, apiKey, now, stats, objects, pc, req, resp, result, startView,
                 calls, sets, touched, fetches, seenHits, seenMisses>>

\* cacheClient.del(key)
del(key) ==
  /\ key \in DOMAIN data
  /\ data' = Without(data, {key})
  /\ UNCHANGED <<adapterVars, keyIn, keyOut, apiKey, now, stats, objects, pc, req, resp, result, startView,
                 calls, sets, touched, fetches, seenHits, seenMisses>>

\* cacheClient.flushAll(): node-cache empties the table and resets its stats
flushAll ==
  /\ data' = EmptyData
  /\ stats' = ZeroStats
  /\ UNCHANGED <<adapterVars, keyIn, keyOut, apiKey, now, objects, pc, req, resp, result, startView,
                 calls, sets, touched, fetches, seenHits, seenMisses>>

\* the cache as the process runs: time, the sweep, and the cache client's
\* other operations
CacheStep ==
  \/ Tick
  \/ checkData
  \/ \E k \in DOMAIN data : del(k)
  \/ flushAll

\* concurrent request handlers
Next ==
  \/ \E p \in Procs, r \in Requests : FetchStart(p, r)
  \/ \E p \in Procs, r \in CoreResponses : UpstreamRespond(p, r)
  \/ \E p \in Procs : Resume(p)
  \/ CacheStep

Spec == Init /\ [][Next]_vars

\* one request handler, every upstream outcome
NextErr ==
  \/ \E r \in Requests : FetchStart(1, r)
  \/ \E r \in Responses : UpstreamRespond(1, r)
  \/ Resume(1)
  \/ CacheStep

SpecErr == Init /\ [][NextErr]_vars

\* The event loop runs the continuation of a settled request.  Nothing obliges
\* the upstream to answer, and axios.get is called without a timeout option.
SpecLive == Init /\ [][NextErr]_vars /\ WF_vars(Resume(1))

\* A caller changes the object getWeatherData returned to it (useClones: false:
\* the cache holds that same object, not a copy).
Mutated(ref, id) ==
  IF ref.id = id THEN [ref EXCEPT !.content = <<"X">>] ELSE ref

mutate(p) ==
  /\ pc[p] = "done" /\ result[p].ok
  /\ IsObject(result[p].v.content)
  /\ LET id == result[p].v.id
     IN  /\ data' = [k \in DOMAIN data |-> [data[k] EXCEPT !.v = Mutated(@, id)]]
         /\ result' = [q \in Procs |-> [result[q] EXCEPT !.v = Mutated(@, id)]]
         /\ startView' = [q \in Procs |-> [startView[q] EXCEPT !.v = Mutated(@, id)]]
  /\ UNCHANGED <<adapterVars, keyIn, keyOut, apiKey, now, stats, objects, pc, req, resp,
                 calls, sets, touched, fetches, seenHits, seenMisses>>

NextMut ==
  \/ Next
  \/ \E p \in Procs : mutate(p)

SpecMut == Init /\ [][NextMut]_vars

\* ------------------------------------------------------------------ claims
Done(p) == pc[p] = "done"
Returned(p) == pc[p] = "done" /\ result[p].ok
Failed(p) == pc[p] = "done" /\ ~result[p].ok

\* C1 (as claimed): a fetch that finds no live entry and succeeds makes exactly
\* one upstream call and one set; a fetch that begins while the entry is within
\* its TTL makes no upstream call and returns the value of that entry, whatever
\* body the upstream sent.
C1_CacheAside ==
  \A p \in Procs :
    /\ Returned(p) /\ startView[p].view \in {"none", "expired"}
         => calls[p] = 1 /\ sets[p] = 1
    /\ pc[p] /= "idle" /\ startView[p].view = "live"
         => calls[p] = 0 /\ Returned(p) /\ result[p].v = startView[p].v

\* C2: a fetch that ended in an error made no set and left the live entries as
\* they were; every entry holds the body of a 200 response; an error that
\* reports an upstream failure comes from an upstream call of that very fetch;
\* and a fetch that passes validation and finds no live entry calls the upstream.
UpstreamFailureTemplates ==
  {"Invalid request: ", "Invalid API key or authentication error",
   "Location not found: ", "API rate limit exceeded", "Weather API error: ",
   "No response from weather service. Please try again later.", "API error: "}

KindOf(message) ==
  CASE message[1] = "Invalid request: " -> "InvalidRequest"
    [] message[1] = "Invalid API key or authentication error" -> "AuthenticationError"
    [] message[1] = "Location not found: " -> "LocationNotFound"
    [] message[1] = "API rate limit exceeded" -> "RateLimitExceeded"
    [] message[1] = "Weather API error: " -> "UpstreamError"
    [] message[1] = "No response from weather service. Please try again later."
         -> "UpstreamUnavailable"
    [] message[1] = "Weather API key is not configured" -> "ConfigurationError"
    [] OTHER -> "other"

\* the taxonomy: the kind each upstream signal must give
KindFor(response) ==
  IF response.type = "noresponse" THEN "UpstreamUnavailable"
  ELSE IF response.status = 400 THEN "InvalidRequest"
  ELSE IF response.status \in {401, 403} THEN "AuthenticationError"
  ELSE IF response.status = 404 THEN "LocationNotFound"
  ELSE IF response.status = 429 THEN "RateLimitExceeded"
  ELSE "UpstreamError"

C4_ExpiryStrict ==
  \A k \in DOMAIN data : cacheClientGet(k) /= Null <=> now < data[k].t

\* C4 (amended): get returns an entry if and only if now <= expiresAt, so still
\* at the instant now = expiresAt; a fetch that finds the entry of its key past
\* its expiry time, swept or not, calls the upstream, and stores a new entry
\* when that call succeeds.
C4_Expiry ==
  /\ \A k \in DOMAIN data : cacheClientGet(k) /= Null <=> now <= data[k].t
  /\ \A p \in Procs :
       startView[p].view = "expired" =>
         /\ calls[p] = 1
         /\ Returned(p) => sets[p] = 1 /\ result[p].v.id > startView[p].v.id

\* C4 witness: a fetch found an expired entry that no sweep had removed, and
\* replaced it
C4_Witness ==
  \E p \in Procs :
    /\ startView[p].view = "expired" /\ Returned(p)
    /\ KeyOf(req[p]) \in DOMAIN data /\ data[KeyOf(req[p])].v = result[p].v

\* C7 (as claimed): whatever a caller does to a value it received, the entry
\* the store holds is the value that was set.
C7_ValueSemantics ==
  \A k \in DOMAIN data : data[k].v.content = data[k].v.orig

\* C8: a value a fetch returns, and the value of every entry, is the unchanged
\* body of a 200 response received by a fetch for that key; a fetch that missed
\* and returned has called the upstream and set the key; and the entry of a key
\* is never older than the object set by a fetch that has finished (the later
\* set wins).
C8_ConcurrentLookups ==
  /\ \A p \in Procs :
       Returned(p) =>
         /\ result[p].v.id >= 1 /\ result[p].v.key = KeyOf(req[p])
         /\ result[p].v.content = result[p].v.orig /\ result[p].v.orig \in Bodies
         /\ calls[p] = 1 => sets[p] = 1
  /\ \A k \in DOMAIN data :
       /\ data[k].v.key = k /\ data[k].v.content = data[k].v.orig
       /\ \A p \in Procs :
            Returned(p) /\ sets[p] = 1 /\ KeyOf(req[p]) = k
              => data[k].v.id >= result[p].v.id

\* C8 witness: two fetches for one key both missed, both called the upstream
\* and both set the key; the entry is the body of the later set
C8_Witness ==
  \E p, q \in Procs :
    /\ p /= q /\ Returned(p) /\ Returned(q) /\ sets[p] = 1 /\ sets[q] = 1
    /\ KeyOf(req[p]) = KeyOf(req[q]) /\ result[p].v.id < result[q].v.id
    /\ result[p].v.content /= result[q].v.content
    /\ KeyOf(req[p]) \in DOMAIN data /\ data[KeyOf(req[p])].v = result[q].v

\* C9 (as claimed): a fetch suspended at the upstream call eventually completes.
C9_FetchCompletes ==
  \A p \in Procs : (pc[p] = "waiting") ~> (pc[p] = "done")

\* C10 (as claimed): the hits counter is the number of lookups that returned an
\* entry and the misses counter the number that returned absent.
C10_StatsAccounting ==
  stats.hits = seenHits /\ stats.misses = seenMisses

\* C11 (as claimed): flushAll empties the store and leaves the hits and misses
\* counters as they were.
C11_FlushFrame ==
  [][flushAll => data' = EmptyData /\ stats' = stats]_vars

\* C13: a fetch with an empty location throws the 'Location is required' error
\* at once: it makes no cache lookup, no upstream call and no set, and leaves
\* the entries of the store and the hits and misses counters as they were.
C13_LocationRequired ==
  [][\A p \in Procs, r \in Requests :
       FetchStart(p, r) /\ r.location = <<>> =>
         /\ pc'[p] = "done"
         /\ result'[p] = Err("Location is required", <<>>)
         /\ calls'[p] = 0 /\ sets'[p] = 0 /\ objects' = objects
         /\ data' = data /\ stats' = stats
         /\ seenHits' = seenHits /\ seenMisses' = seenMisses]_vars

\* C13 witness: a fetch with an empty location failed while the store held an
\* entry and had counted a lookup
C13_Witness ==
  \E p \in Procs :
    /\ Failed(p) /\ req[p].location = <<>>
    /\ result[p].message[1] = "Location is required"
    /\ DOMAIN data /= {} /\ stats.misses > 0

\* C14 (as claimed): a fetch whose upstream call resolved with a status other
\* than 200 fails, stores nothing, and its error carries the message and the
\* status: it is not the error of a response with another such status.
C14_NonSuccessStatus ==
  \A p \in Procs :
    Done(p) /\ resp[p].type = "resolve" /\ resp[p].status /= 200 =>
      /\ Failed(p) /\ sets[p] = 0 /\ ~touched[p]
      /\ result[p].message[2] = StatusText
      /\ \A r \in Responses :
           r.type = "resolve" /\ r.status \notin {200, resp[p].status}
             => nonSuccess(r, req[p].location) /= result[p]

\* C19 (as claimed): a fetch that finds a live entry of its key returns that
\* entry at once, without an upstream call or a set; the entries of the store
\* and their expiry times stay as they were, and only the hits counter
\* changes, by one.
C19_HitFrame ==
  [][\A p \in Procs, r \in Requests :
       FetchStart(p, r) /\ Truthy(r.location) /\ apiKey /\ cacheHas(KeyOf(r)) =>
         /\ pc'[p] = "done" /\ result'[p] = Ok(data[KeyOf(r)].v)
         /\ calls'[p] = 0 /\ sets'[p] = 0 /\ objects' = objects
         /\ data' = data
         /\ stats' = [stats EXCEPT !.hits = @ + 1]]_vars

\* C23 (as claimed): a fetch that passes validation calls the upstream exactly
\* when the store counted a miss for its lookup, and when the store counted a
\* hit the fetch returns the entry the store holds.
C23_HitMissAgreement ==
  [][\A p \in Procs, r \in Requests :
       FetchStart(p, r) /\ Truthy(r.location) /\ apiKey =>
         /\ calls'[p] = 1 <=> stats'.misses = stats.misses + 1
         /\ stats'.hits = stats.hits + 1 =>
              pc'[p] = "done" /\ result'[p] = Ok(data[KeyOf(r)].v)]_vars

\* ------------------------------------------------- cacheClient.set on its own
\* the keys and the options a caller passes: no options at all, or an EX of
\* -1, 0, 1 or 2 seconds
SetKeys == {KeyOf(r) : r \in {q \in Requests : Truthy(q.location)}}
SetOptions ==
  {[given |-> FALSE, EX |-> 0]} \cup [given : {TRUE}, EX : {-1, 0, 1, 2}]

\* options.EX as `options.EX || cacheExpiration` tests it: undefined is as
\* falsy as 0
OptionsEX(options) == IF options.given THEN options.EX ELSE 0

\* a caller stores a new object: await cacheClient.set(key, value, options).
\* cache.set does not throw for a string key, so the call returns 'OK'.
set(key, body, options) ==
  /\ objects < MaxFetches
  /\ objects' = objects + 1
  /\ data' = cacheClientSet(data, key, Object(objects + 1, key, body),
                            OptionsEX(options))
  /\ lastSet' = [key |-> key, options |-> options, ret |-> "OK"]
  /\ UNCHANGED <<http, forecast, server, limiter, keyIn, keyOut, apiKey, now, stats, pc, req, resp,
                 result, startView, calls, sets, touched, fetches, seenHits,
                 seenMisses>>

NextSet ==
  \/ \E k \in SetKeys, b \in {<<"A">>, <<"B">>}, o \in SetOptions : set(k, b, o)
  \/ CacheStep

SpecSet == Init /\ [][NextSet]_vars

\* C12 (as claimed): a set without a TTL stores the entry with the baseline
\* TTL; a set with a zero or negative TTL fails with InvalidArgument and leaves
\* the store unchanged; a set with a positive TTL replaces the entry of the key
\* and puts its expiry at now + ttl.
C12_SetTtl ==
  [][\A k \in SetKeys, b \in {<<"A">>, <<"B">>}, o \in SetOptions :
       set(k, b, o) =>
         LET value == Object(objects + 1, k, b)
             stored(ttl) ==
               /\ lastSet'.ret = "OK"
               /\ DOMAIN data' = DOMAIN data \cup {k}
               /\ data'[k] = [v |-> value, t |-> now + ttl]
               /\ \A j \in DOMAIN data \ {k} : data'[j] = data[j]
         IN  /\ ~o.given => stored(cacheExpiration)
             /\ o.given /\ o.EX <= 0
                  => lastSet'.ret = "InvalidArgument" /\ data' = data
             /\ o.given /\ o.EX > 0 => stored(o.EX)]_vars

\* ------------------------------------------------------------- the routes
\* String.prototype.includes on an error message, for the phrases the routes
\* look for: the literal part of a message contains the phrases it spells; the
\* interpolated part is a sequence of characters and of such phrases
TemplatePhrases(template) ==
  CASE template = "Location not found: " -> {"Location not found"}
    [] template = "Invalid request: " -> {"Invalid request"}
    [] template = "Invalid API key or authentication error"
         -> {"API key", "authentication"}
    [] template = "API rate limit exceeded" -> {"rate limit"}
    [] template = "Weather API key is not configured" -> {"API key"}
    [] OTHER -> {}

includes(message, phrase) ==
  \/ phrase \in TemplatePhrases(message[1])
  \/ \E i \in 1..Len(message[2]) : message[2][i] = phrase

\* the catch block of a route: the status code for error.message
statusCode(message) ==
  IF includes(message, "Location not found") THEN 404
  ELSE IF includes(message, "Invalid request") THEN 400
  ELSE IF includes(message, "API key") \/ includes(message, "authentication")
    THEN 401
  ELSE IF includes(message, "rate limit") THEN 429
  ELSE 500

\* the route answers: res.json(...) with status 200, or
\* res.status(statusCode).json({ error: true, message })
routeRespond(p) ==
  /\ pc[p] = "done"
  /\ pc' = [pc EXCEPT ![p] = "idle"]
  /\ http' = [http EXCEPT ![p] =
                IF result[p].ok THEN 200 ELSE statusCode(result[p].message)]
  /\ UNCHANGED <<lastSet, forecast, server, limiter, keyIn, keyOut, apiKey, now, data, stats,
                 objects, req, resp, result, startView, calls, sets, touched, fetches,
                 seenHits, seenMisses>>

\* the locations of the requests (a path segment is never empty), one of them
\* spelling a phrase, and upstream error messages that spell phrases
RouteRequests ==
  {r \in Requests : Truthy(r.location)}
    \cup {[location |-> <<"rate limit">>, params |-> <<>>]}
RouteResponses ==
  Responses \cup [type : {"reject"}, status : ErrorStatuses, body : {<<>>},
                  message : {<<"rate limit">>, <<"Location not found">>}]

NextRoute ==
  \/ \E r \in RouteRequests : FetchStart(1, r)
  \/ \E r \in RouteResponses : UpstreamRespond(1, r)
  \/ Resume(1)
  \/ routeRespond(1)
  \/ CacheStep

SpecRoute == Init /\ [][NextRoute]_vars

\* the statuses the adapter may give for an error kind
StatusesFor(kind) ==
  CASE kind = "InvalidRequest" -> {400}
    [] kind = "AuthenticationError" -> {401, 500}
    [] kind = "ConfigurationError" -> {401, 500}
    [] kind = "LocationNotFound" -> {404}
    [] kind = "RateLimitExceeded" -> {429}
    [] kind = "UpstreamUnavailable" -> {500, 503}
    [] OTHER -> {500, 502, 503}

\* C15 (as claimed): the status a route sends for a failed fetch is the one its
\* error kind gives, whatever the upstream message and the location contain.
C15_StatusMapping ==
  [][\A p \in Procs :
       routeRespond(p) /\ ~result[p].ok =>
         LET kind == IF resp[p].type \in {"reject", "noresponse"}
                       THEN KindFor(resp[p])
                       ELSE KindOf(result[p].message)
         IN  http'[p] \in StatusesFor(kind)]_vars

\* ---------------------------------------------------- the forecast projection
MaxDays == 3
MaxDigits == 3

\* req.query.days: undefined when the parameter is absent, else a string of at
\* most MaxDigits characters
DaysChars == {"0", "2", "5", "-", ".", "x"}
DaysStrings == UNION {[1..n -> DaysChars] : n \in 0..MaxDigits}

IsDigit(c) == c \in {"0", "1", "2", "3", "4", "5", "6", "7", "8", "9"}
DigitValue(c) ==
  CASE c = "0" -> 0 [] c = "1" -> 1 [] c = "2" -> 2 [] c = "3" -> 3 [] c = "4" -> 4
    [] c = "5" -> 5 [] c = "6" -> 6 [] c = "7" -> 7 [] c = "8" -> 8 [] c = "9" -> 9

\* the string without its sign
Unsigned(str) == IF str /= <<>> /\ str[1] = "-" THEN Tail(str) ELSE str

\* the longest prefix of digits
RECURSIVE DigitPrefix(_)
DigitPrefix(str) ==
  IF str /= <<>> /\ IsDigit(str[1]) THEN <<str[1]>> \o DigitPrefix(Tail(str))
  ELSE <<>>

RECURSIVE DigitsValue(_)
DigitsValue(digits) ==
  IF digits = <<>> THEN 0
  ELSE 10 * DigitsValue(SubSeq(digits, 1, Len(digits) - 1))
         + DigitValue(digits[Len(digits)])

\* Number(str) is not NaN: the empty string (0), or an optional sign, digits,
\* and an optional point and digits, with a digit on one side of the point
IsNumber(str) ==
  LET body == Unsigned(str)
      whole == DigitPrefix(body)
      rest == SubSeq(body, Len(whole) + 1, Len(body))
      fraction == IF rest /= <<>> /\ rest[1] = "." THEN Tail(rest) ELSE rest
  IN  \/ str = <<>>
      \/ /\ DigitPrefix(fraction) = fraction
         /\ rest /= <<>> => rest[1] = "."
         /\ whole \o fraction /= <<>>

\* Number(str) > 0
IsPositive(str) ==
  /\ IsNumber(str)
  /\ str /= <<>> /\ str[1] /= "-"
  /\ \E i \in 1..Len(str) : IsDigit(str[i]) /\ str[i] /= "0"

\* parseInt(str): the value of the digits after the sign, up to the first
\* character that is not a digit; NaN when there are none
NaN == [nan |-> TRUE, value |-> 0]
parseInt(str) ==
  LET digits == DigitPrefix(Unsigned(str))
  IN  IF digits = <<>> THEN NaN
      ELSE [nan |-> FALSE,
            value |-> IF str[1] = "-" THEN 0 - DigitsValue(digits)
                      ELSE DigitsValue(digits)]

\* Array.prototype.slice(0, end): NaN counts as 0, a negative end counts from
\* the end of the array
slice(array, end) ==
  LET k == IF end.nan THEN 0
           ELSE IF end.value < 0 THEN Len(array) + end.value
           ELSE end.value
  IN  SubSeq(array, 1, IF k > Len(array) THEN Len(array) ELSE k)

\* weatherData.days of a record with n days
DaysOf(n) == [i \in 1..n |-> i]

\* if (days && !isNaN(days) && days > 0)
\*   forecastDays = forecastDays.slice(0, parseInt(days))
forecastDays(days, n) ==
  IF Truthy(days) /\ IsNumber(days) /\ IsPositive(days)
    THEN slice(DaysOf(n), parseInt(days))
    ELSE DaysOf(n)

InitForecast ==
  /\ CoreInit
  /\ keyIn = NoKeyIn
  /\ keyOut = <<>>
  /\ server = Loaded(IF apiKey THEN RealKey ELSE Undefined)
  /\ forecast \in [days : DaysStrings \cup {Undefined}, n : 0..MaxDays,
                   sent : {FALSE}, out : {<<>>}]

\* the forecast route builds its answer from the record
project ==
  /\ ~forecast.sent
  /\ forecast' = [forecast EXCEPT !.sent = TRUE,
                                  !.out = forecastDays(forecast.days, forecast.n)]
  /\ UNCHANGED <<lastSet, http, server, limiter, keyIn, keyOut, apiKey, now, data, stats,
                 objects, pc, req, resp, result, startView, calls, sets, touched, fetches,
                 seenHits, seenMisses>>

SpecForecast == InitForecast /\ [][project]_vars

\* the string is the decimal numeral of a positive integer
IsPositiveInteger(str) ==
  /\ str /= <<>>
  /\ \A i \in 1..Len(str) : IsDigit(str[i])
  /\ DigitsValue(str) > 0

\* C16 (as claimed): when the count is a positive integer the projection
\* returns the first c days of the record (all of them when c >= n); for any
\* other count, or none, it returns all the days; a record with days never
\* gives an empty answer.
C16_ForecastTruncation ==
  forecast.sent =>
    LET c == forecast.days
        n == forecast.n
    IN  /\ IsPositiveInteger(c) =>
             forecast.out =
               SubSeq(DaysOf(n), 1, IF DigitsValue(c) >= n THEN n ELSE DigitsValue(c))
        /\ ~IsPositiveInteger(c) => forecast.out = DaysOf(n)
        /\ n > 0 => forecast.out /= <<>>

\* -------------------------------------------------------- the server startup
\* the placeholder value checkEnvironment tests for
Placeholder == <<"ABC123XYZ456">>

\* process.env.WEATHER_API_KEY: not set, empty, the placeholder, or a key
EnvKeys == {Undefined, <<>>, Placeholder, RealKey}

\* const portOptions = [PORT, 8080, 3000, 5000, 9090, 9091, 9092], PORT = 9090
portOptions == <<9090, 8080, 3000, 5000, 9090, 9091, 9092>>

\* (variant: checkEnvironment without the placeholder case)
checkEnvironmentKeySet(key) == Truthy(key)

\* checkEnvironment()
checkEnvironment(key) == Truthy(key) /\ key /= Placeholder

\* startServerOnAvailablePort(ports, index): past the last port the process
\* exits with code 1, else app.listen(ports[index]) is called
startServerOnAvailablePort(s, index) ==
  IF index >= Len(portOptions)
    THEN [s EXCEPT !.phase = "exited", !.exitCode = 1]
    ELSE [s EXCEPT !.phase = "binding", !.index = index, !.listens = @ + 1]

InitServer ==
  /\ CoreInit
  /\ keyIn = NoKeyIn
  /\ keyOut = <<>>
  /\ forecast = NoForecast
  /\ \E key \in EnvKeys : server = Loaded(key)
  /\ apiKey = Truthy(server.key)

\* the startup code at the end of index.js
startup ==
  /\ server.phase = "loaded"
  /\ server' = IF checkEnvironment(server.key)
                 THEN startServerOnAvailablePort(server, 0)
                 ELSE [server EXCEPT !.phase = "exited", !.exitCode = 1]
  /\ UNCHANGED <<lastSet, http, forecast, limiter, keyIn, keyOut, apiKey, now, data, stats,
                 objects, pc, req, resp, result, startView, calls, sets, touched,
                 fetches, seenHits, seenMisses>>

\* the port is bound and the server listens
listening ==
  /\ server.phase = "binding"
  /\ server' = [server EXCEPT !.phase = "listening", !.up = @ + 1]
  /\ UNCHANGED <<lastSet, http, forecast, limiter, keyIn, keyOut, apiKey, now, data, stats,
                 objects, pc, req, resp, result, startView, calls, sets, touched,
                 fetches, seenHits, seenMisses>>

\* app.listen throws or the server emits 'error' (EADDRINUSE or another
\* code): the next port is tried
listenError ==
  /\ server.phase = "binding"
  /\ server' = startServerOnAvailablePort(server, server.index + 1)
  /\ UNCHANGED <<lastSet, http, forecast, limiter, keyIn, keyOut, apiKey, now, data, stats,
                 objects, pc, req, resp, result, startView, calls, sets, touched,
                 fetches, seenHits, seenMisses>>

\* a server that listens emits 'error' (net.Server does so when accepting a
\* connection fails, e.g. EMFILE): the handler registered at line 111 is still
\* attached and tries the next port
serverError ==
  /\ server.phase = "listening"
  /\ server' = startServerOnAvailablePort(server, server.index + 1)
  /\ UNCHANGED <<lastSet, http, forecast, limiter, keyIn, keyOut, apiKey, now, data, stats,
                 objects, pc, req, resp, result, startView, calls, sets, touched,
                 fetches, seenHits, seenMisses>>

\* a listening server handles requests
serve ==
  /\ server.up > 0 /\ server.phase /= "exited"
  /\ \/ \E r \in RouteRequests : FetchStart(1, r)
     \/ \E r \in CoreResponses : UpstreamRespond(1, r)
     \/ Resume(1)
     \/ routeRespond(1)

NextServer ==
  \/ startup
  \/ listening
  \/ listenError
  \/ serverError
  \/ serve

SpecServer == InitServer /\ [][NextServer]_vars

\* Node settles every listen call: the server emits 'listening' or 'error'
SpecPorts ==
  InitServer /\ [][NextServer]_vars
    /\ WF_vars(startup) /\ WF_vars(listening \/ listenError)

\* C17: a listen call is made, and the server listens, only when the API key is
\* set and is not the placeholder; when the key is missing, empty or the
\* placeholder the startup ends in exit code 1 without any listen call, and no
\* request is ever handled.
C17_StartupGate ==
  /\ server.listens > 0 \/ server.phase \in {"binding", "listening"}
       => Truthy(server.key) /\ server.key /= Placeholder
  /\ ~Truthy(server.key) \/ server.key = Placeholder
       => /\ server.phase \in {"loaded", "exited"}
          /\ server.phase = "exited" => server.exitCode = 1
          /\ server.listens = 0 /\ fetches = 0

\* C17 witness: the startup ended with the placeholder key
C17_Witness ==
  server.key = Placeholder /\ server.phase = "exited" /\ server.exitCode = 1

\* C22 (as claimed): a listen call is made for the first port at startup, or
\* for the next port after the listen call for the current one failed, and for
\* no port while a server listens; and the startup ends: eventually a server
\* listens or the process has exited with code 1.
C22_PortFallback ==
  /\ [][server'.listens > server.listens =>
          /\ server'.listens = server.listens + 1
          /\ \/ server.phase = "loaded" /\ server'.index = 0
             \/ server.phase = "binding" /\ server'.index = server.index + 1
          /\ server.up = 0]_vars
  /\ <>(server.up > 0 \/ (server.phase = "exited" /\ server.exitCode = 1))

\* ---------------------------------------------------------- the rate limiter
\* const maxRequests = parseInt(process.env.RATE_LIMIT_MAX_REQUESTS) || 30
\* (any positive number)
maxRequests == 2

\* the paths requested: the health check, and a weather route
HealthPath == "/health"
Paths == {HealthPath, "/api/weather/:location"}

\* (variant: the limit applied one request late)
overLimitLate(totalHits) == totalHits > maxRequests + 1

\* express-rate-limit: the request counted last exceeds the limit
overLimit(totalHits) == totalHits > maxRequests

\* skip: (req) => req.path === '/health'
skip(path) == path = HealthPath

\* a request arrives at a free handler and passes app.use(rateLimiter): a
\* skipped request goes on uncounted; any other is counted, and is answered 429
\* when the count exceeds the limit, else goes on to its route
request(c, p, path, r) ==
  /\ pc[p] = "idle"
  /\ limiter.hits[c] <= maxRequests
  /\ UNCHANGED <<lastSet, forecast, server>>
  /\ IF skip(path) THEN
       \* app.get('/health'): res.status(200)
       /\ http' = [http EXCEPT ![p] = 200]
       /\ UNCHANGED <<limiter, keyIn, keyOut, apiKey, now, data, stats, objects, pc,
                      req, resp, result, startView, calls, sets, touched, fetches,
                      seenHits, seenMisses>>
     ELSE IF overLimit(limiter.hits[c] + 1) THEN
       /\ limiter' = [limiter EXCEPT !.hits[c] = @ + 1]
       /\ http' = [http EXCEPT ![p] = 429]
       /\ UNCHANGED <<keyIn, keyOut, apiKey, now, data, stats, objects, pc, req,
                      resp, result, startView, calls, sets, touched, fetches,
                      seenHits, seenMisses>>
     ELSE
       /\ limiter' = [limiter EXCEPT !.hits[c] = @ + 1, !.reached[c] = @ + 1]
       /\ http' = [http EXCEPT ![p] = 0]
       /\ getWeatherData(p, r)

\* the client's window ends: its count starts again
windowReset(c) ==
  /\ limiter.hits[c] > 0
  /\ limiter' = [limiter EXCEPT !.hits[c] = 0, !.reached[c] = 0]
  /\ UNCHANGED <<lastSet, http, forecast, server, keyIn, keyOut, apiKey, now, data,
                 stats, objects, pc, req, resp, result, startView, calls, sets,
                 touched, fetches, seenHits, seenMisses>>

NextRate ==
  \/ \E c \in Clients, path \in Paths, r \in RouteRequests : request(c, 1, path, r)
  \/ \E c \in Clients : windowReset(c)
  \/ \E r \in CoreResponses : UpstreamRespond(1, r)
  \/ Resume(1)
  \/ routeRespond(1)

SpecRate == Init /\ [][NextRate]_vars

\* C18: in a window at most maxRequests requests of one client go on to a
\* weather route; a request beyond that is answered 429 and makes no cache
\* lookup, no upstream call and no change of the store or of the hits and
\* misses counters; a request to /health is answered 200 and is not counted.
C18_RateLimit ==
  [][/\ \A c \in Clients : limiter'.reached[c] <= maxRequests
     /\ \A c \in Clients, path \in Paths, r \in RouteRequests :
          request(c, 1, path, r) =>
            /\ path /= HealthPath /\ limiter.hits[c] >= maxRequests =>
                 /\ http'[1] = 429
                 /\ data' = data /\ stats' = stats /\ objects' = objects
                 /\ calls' = calls /\ fetches' = fetches /\ pc' = pc
                 /\ seenHits' = seenHits /\ seenMisses' = seenMisses
            /\ path = HealthPath => http'[1] = 200 /\ limiter' = limiter]_vars

\* C18 witness: a client's request was rejected after maxRequests of its
\* requests went on in the window
C18_Witness ==
  \E c \in Clients :
    /\ limiter.hits[c] = maxRequests + 1 /\ limiter.reached[c] = maxRequests
    /\ http[1] = 429 /\ fetches = maxRequests

\* ------------------------------------------------------- the periodic sweep
\* fetches, the clock and the sweep: no del, no flushAll.  The sweep's timer is
\* set again after every run (checkperiod: cacheExpiration * 0.2), so a sweep
\* that has something to remove eventually runs.
NextSweep ==
  \/ \E r \in Requests : FetchStart(1, r)
  \/ \E r \in CoreResponses : UpstreamRespond(1, r)
  \/ Resume(1)
  \/ Tick
  \/ checkData

SpecSweep == Init /\ [][NextSweep]_vars /\ WF_vars(checkData)

\* C20: an entry whose expiry time has passed is eventually gone from the
\* store, whether or not its key is looked up again, and a sweep removes no
\* entry that is still live and changes none.
C20_Sweep ==
  /\ \A k \in SetKeys :
       (k \in DOMAIN data /\ Expired(data[k]))
         ~> (k \notin DOMAIN data \/ ~Expired(data[k]))
  /\ [][checkData =>
          \A k \in DOMAIN data :
            ~Expired(data[k]) => k \in DOMAIN data' /\ data'[k] = data[k]]_vars

\* C20 witness: the entry the only fetch had set expired and was removed, while
\* no other fetch looked its key up
C20_Witness ==
  /\ fetches = 1 /\ Returned(1) /\ sets[1] = 1
  /\ now > cacheExpiration /\ DOMAIN data = {}

\* ------------------------------------------------------------ observability
\* (variant: the stats stored under the key of a weather request)
StatsKeyWeather == WeatherPrefix \o <<"a">>

\* '__CACHE_STATS__'
StatsKey == <<"__CACHE_STATS__">>

\* the keys of the weather requests
WeatherKeys == {KeyOf(r) : r \in {q \in Requests : Truthy(q.location)}}

\* cache.getStats(): the cache's stats object itself (useClones: false)
StatsObject ==
  [id |-> -1, key |-> StatsKey, content |-> <<"stats">>, orig |-> <<"stats">>]

\* the stats task (setInterval, every half of cacheExpiration): it logs the
\* counters and stores the stats object: cache.set('__CACHE_STATS__', stats),
\* without a ttl, so with stdTTL = cacheExpiration.  The 'del' listener only
\* writes to the console.
logStats ==
  /\ data' = cacheClientSet(data, StatsKey, StatsObject, 0)
  /\ UNCHANGED <<adapterVars, keyIn, keyOut, apiKey, now, stats, objects, pc, req,
                 resp, result, startView, calls, sets, touched, fetches,
                 seenHits, seenMisses>>

NextObs ==
  \/ \E r \in Requests : FetchStart(1, r)
  \/ \E r \in CoreResponses : UpstreamRespond(1, r)
  \/ Resume(1)
  \/ CacheStep
  \/ logStats

SpecObs == Init /\ [][NextObs]_vars

\* C21: a run of the stats task leaves the hits and misses counters, every
\* entry of a weather key and so the answer of a get for it, and every fetch
\* in progress or finished as they were; the key it writes is the key of no
\* weather request.
C21_Observability ==
  [][logStats =>
       /\ stats' = stats
       /\ \A k \in WeatherKeys :
            /\ k \in DOMAIN data' <=> k \in DOMAIN data
            /\ k \in DOMAIN data => data'[k] = data[k]
            /\ k /= StatsKey
       /\ pc' = pc /\ result' = result /\ calls' = calls /\ sets' = sets
       /\ seenHits' = seenHits /\ seenMisses' = seenMisses]_vars

\* C21 witness: the stats entry is in the store next to a weather entry that a
\* fetch was answered from
C21_Witness ==
  /\ StatsKey \in DOMAIN data
  /\ \E p \in Procs :
       /\ Returned(p) /\ calls[p] = 0 /\ startView[p].view = "live"
       /\ KeyOf(req[p]) \in DOMAIN data

\* ------------------------------------------------ key derivation on its own
\* locations: two place names, and one that contains the separators
KeyLocations == {<<"a">>, <<"b">>, <<"a", ":", "u", "=", "m">>}
\* parameter names (unitGroup, include) and the values a caller may pass
KeyNames == {<<"u">>, <<"i">>}
KeyValues == {<<"m">>, <<"d">>, Undefined, JSNull}
MaxParams == 2

\* the params objects: at most MaxParams entries, no name twice
KeyParams ==
  {<<>>} \cup
  UNION {{ps \in [1..n -> KeyNames \X KeyValues] :
            \A i, j \in 1..n : i /= j => ps[i][1] /= ps[j][1]} : n \in 1..MaxParams}

InitKey ==
  /\ CoreInit
  /\ apiKey = TRUE
  /\ keyIn \in [location1 : KeyLocations, params1 : KeyParams,
                 location2 : KeyLocations, params2 : KeyParams]
  /\ keyOut = <<>>
  /\ forecast = NoForecast
  /\ server = Loaded(RealKey)

\* generateCacheKey applied to both inputs
deriveKeys ==
  /\ keyOut = <<>>
  /\ keyOut' = <<generateCacheKey(keyIn.location1, keyIn.params1),
                 generateCacheKey(keyIn.location2, keyIn.params2)>>
  /\ UNCHANGED <<adapterVars, keyIn, apiKey, now, data, stats, objects, pc, req, resp, result,
                 startView, calls, sets, touched, fetches, seenHits, seenMisses>>

SpecKey == InitKey /\ [][deriveKeys]_vars

\* the entries of a params object as a mapping: its <<name, value>> pairs
Entries(params) == {params[i] : i \in 1..Len(params)}

\* the entries that are defined and not empty
DefinedEntries(params) ==
  {e \in Entries(params) : e[2] /= Undefined /\ e[2] /= JSNull /\ e[2] /= <<>>}

\* C5 (as claimed): equal inputs give equal keys, a params object with the same
\* entries in another order gives the same key, and adding a parameter whose
\* value is undefined does not change the key.
C5_KeyDeterminism ==
  keyOut /= <<>> /\ keyIn.location1 = keyIn.location2 =>
    /\ keyIn.params1 = keyIn.params2 => keyOut[1] = keyOut[2]
    /\ Entries(keyIn.params1) = Entries(keyIn.params2) => keyOut[1] = keyOut[2]
    /\ (\E n \in KeyNames :
          /\ \A i \in 1..Len(keyIn.params1) : keyIn.params1[i][1] /= n
          /\ keyIn.params2 = Append(keyIn.params1, <<n, Undefined>>))
       => keyOut[1] = keyOut[2]

\* C6 (as claimed): two requests that differ in the location or in a defined,
\* non-empty parameter get different keys.
C6_KeyInjective ==
  keyOut /= <<>> =>
    (keyIn.location1 /= keyIn.location2
       \/ DefinedEntries(keyIn.params1) /= DefinedEntries(keyIn.params2)
     => keyOut[1] /= keyOut[2])

\* ------------------------------------------------ requests that share an entry
\* the parameter unitGroup and two of its values, 'metric' and 'us'
UnitGroup == <<"u">>
Metric == <<"m">>
ShareRequests ==
  { [location |-> <<"a">>, params |-> <<>>],
    [location |-> <<"a">>, params |-> <<<<UnitGroup, Metric>>>>],
    [location |-> <<"a">>, params |-> <<<<UnitGroup, <<"d">>>>>>] }

\* params[name]: undefined when the object has no such property
Property(params, name) ==
  IF \E i \in 1..Len(params) : params[i][1] = name
    THEN params[CHOOSE i \in 1..Len(params) : params[i][1] = name][2]
    ELSE Undefined

\* the query axios sends: { ...params, key: apiKey,
\* unitGroup: params.unitGroup || 'metric' } as a set of <<name, value>> pairs
\* (axios leaves out undefined and null values)
requestParams(params) ==
  {e \in Entries(params) :
     e[1] /= UnitGroup /\ e[2] /= Undefined /\ e[2] /= JSNull}
    \cup {<<<<"k", "e", "y">>, RealKey>>}
    \cup {<<UnitGroup, IF Truthy(Property(params, UnitGroup))
                         THEN Property(params, UnitGroup) ELSE Metric>>}

\* the upstream request of a fetch: the url and the query
upstreamRequest(r) == <<r.location, requestParams(r.params)>>

NextShare ==
  \/ \E r \in ShareRequests : FetchStart(1, r)
  \/ \E r \in CoreResponses : UpstreamRespond(1, r)
  \/ Resume(1)
  \/ CacheStep

SpecShare == Init /\ [][NextShare]_vars

\* C24 (as claimed): two requests with the same upstream request have the same
\* cache key, and a fetch that begins while the store holds a live entry, with
\* a body, of a request with the same upstream request makes no upstream call.
C24_SharedEntry ==
  [][\A p \in Procs, r \in ShareRequests :
       FetchStart(p, r) /\ apiKey =>
         \A q \in ShareRequests :
           upstreamRequest(q) = upstreamRequest(r) =>
             /\ KeyOf(q) = KeyOf(r)
             /\ cacheHas(KeyOf(q)) /\ Truthy(data[KeyOf(q)].v.content)
                  => calls'[p] = 0 /\ pc'[p] = "done"]_vars

====
